---- MODULE Spec2Model ----
(***************************************************************************)
(* HA coordination core of the KubeBlocks sidecar: the configuration       *)
(* store (lease on the cluster object, auxiliary config records, pod       *)
(* roster) and the WeSQL engine manager.                                   *)
(*                                                                         *)
(* Strings are sequences of one-character strings, so that formatting,     *)
(* parsing and splitting are computed and not assumed.                     *)
(***************************************************************************)
EXTENDS Integers, Sequences, FiniteSets, TLC

VARIABLES
    now,            \* wall clock, Unix seconds (time.Now().Unix())
    clusterObj,     \* the cluster object in the store: present, resourceVersion, annotations
    configMaps,     \* the ConfigMaps of the namespace, in listing order
    pods,           \* the Pods of the namespace, in listing order
    environ,        \* the process environment (os.Getenv), fixed for a run
    loopVarPerIter, \* the build: TRUE when a range variable is fresh per iteration (Go >= 1.22)
    cs,             \* ConfigurationStore: cluster, leaderObservedRecord, LeaderObservedTime
    crashed,        \* the process died in a run-time panic
    held,           \* per node, the object its caller last got from GetClusterObj
    writes,         \* history: the UpdateClusterObj calls made and the store's answers
    lastInit,       \* outcome of the last ConfigurationStore.Init: calls made, failing step
    lastRefresh,    \* outcome of the last GetClusterFromKubernetes, with the snapshot assembled last
    call,           \* the last call of a manager operation: arguments and result
    engine,         \* the WeSQL engine: membership, this node's role, calls made so far
    f               \* the fsm of the configuration scanner, with its next state handler

vars == <<now, clusterObj, configMaps, pods, environ, loopVarPerIter, cs, crashed,
          held, writes, lastInit, lastRefresh, call, engine, f>>

storeVars == <<now, clusterObj, configMaps, pods, environ, loopVarPerIter, cs, crashed,
               held, writes, lastInit, lastRefresh>>

mgrVars == <<call, engine>>

(***************************************************************************)
(* Bounds of the model.                                                    *)
(***************************************************************************)
MaxTime == 3
MaxVersion == 3
MaxLine == 3
MaxBackups == 3
MaxStamp == 2
MaxPods == 2
MaxWrites == 3
MaxMembers == 3
MaxRows == 3
MaxCalls == 2
MaxEntries == 3

Nil == [nil |-> TRUE]

(***************************************************************************)
(* Strings.                                                                *)
(***************************************************************************)
DigitChars == <<"0", "1", "2", "3", "4", "5", "6", "7", "8", "9">>

IsDigit(c) == \E i \in 1..Len(DigitChars) : DigitChars[i] = c

DigitVal(c) == (CHOOSE i \in 1..Len(DigitChars) : DigitChars[i] = c) - 1

RECURSIVE ParseDigits(_)
ParseDigits(s) ==
    IF s = <<>> THEN 0
    ELSE ParseDigits(SubSeq(s, 1, Len(s) - 1)) * 10 + DigitVal(s[Len(s)])

\* strconv.Atoi: an optional sign, then one or more decimal digits.
Atoi(s) ==
    LET signed == s # <<>> /\ s[1] \in {"+", "-"}
        body   == IF signed THEN Tail(s) ELSE s
    IN  IF body = <<>> \/ \E i \in 1..Len(body) : ~IsDigit(body[i])
        THEN [err |-> TRUE, val |-> 0]
        ELSE [err |-> FALSE,
              val |-> IF signed /\ s[1] = "-" THEN 0 - ParseDigits(body)
                      ELSE ParseDigits(body)]

RECURSIVE FormatNat(_)
FormatNat(n) ==
    IF n < 10 THEN <<DigitChars[n + 1]>>
    ELSE FormatNat(n \div 10) \o <<DigitChars[(n % 10) + 1]>>

\* strconv.FormatInt(n, 10)
FormatInt(n) == IF n < 0 THEN <<"-">> \o FormatNat(0 - n) ELSE FormatNat(n)

\* strings.Split(s, ".")[0]: the text before the first "."
FirstLabel(s) ==
    IF \E i \in 1..Len(s) : s[i] = "."
    THEN SubSeq(s, 1, (CHOOSE i \in 1..Len(s) :
                          s[i] = "." /\ \A j \in 1..(i - 1) : s[j] # ".") - 1)
    ELSE s

\* a Go map read: the zero value "" for a missing key
Lookup(m, k) == IF k \in DOMAIN m THEN m[k] ELSE <<>>

(***************************************************************************)
(* Annotation keys and record names of the configuration store.            *)
(***************************************************************************)
LeaderName == "leaderName"
AcquireTime == "acquireTime"
RenewTime == "renewTime"
TTL == "ttl"
SysID == "sysID"
MaxLagOnFailover == "maxLagOnFailover"
Candidate == "candidate"
ScheduledAt == "scheduledAt"

ConfigName == "comp-config"
FailoverName == "comp-failover"
ExtraName == "comp-extra"

\* sample values
NameA == <<"a">>
NameB == <<"b">>
NameC == <<"c">>
NameD == <<"d">>
Names == {NameA, NameB, NameC, NameD}
PodHostNames == {<<"a", ".", "h">>}
TtlTexts == {<<"2">>, <<"x">>}
MaxLagTexts == {<<"9">>}
ClusterNames == {<<"k">>}
ScheduledAtTexts == {<<"3">>, <<"3", "s">>, <<>>}
SysIDs == {<<"s">>}
PodNames == <<NameA, NameB, NameC, NameD>>
Nodes == {"n1", "n2"}

NoAnnotations == [k \in {} |-> <<>>]
\* the extra argument of Init: nil, or a map
Extras == {Nil, "k" :> <<"v">>}

(***************************************************************************)
(* The lease record.                                                       *)
(***************************************************************************)
OrZero(r) == IF r.err THEN 0 ELSE r.val

\* a copy-and-paste slip: the renew time read from the acquire time's key
newLeaderRecord_RenewFromAcquire(data) ==
    [acquireTime |-> OrZero(Atoi(Lookup(data, AcquireTime))),
     leader      |-> Lookup(data, LeaderName),
     renewTime   |-> OrZero(Atoi(Lookup(data, AcquireTime))),
     ttl         |-> OrZero(Atoi(Lookup(data, TTL)))]

newLeaderRecord(data) ==
    [acquireTime |-> OrZero(Atoi(Lookup(data, AcquireTime))),
     leader      |-> Lookup(data, LeaderName),
     renewTime   |-> OrZero(Atoi(Lookup(data, RenewTime))),
     ttl         |-> OrZero(Atoi(Lookup(data, TTL)))]

\* spec section 3: a lease is expired iff now > renewTime + ttl
isExpired(r, t) == t > r.renewTime + r.ttl

(***************************************************************************)
(* Snapshot constructors (spec section 3).                                 *)
(***************************************************************************)
newMember(index, name, meta) == [index |-> index, Name |-> name]

newLeader(version, member) == [version |-> version, Name |-> member.Name, index |-> member.index]

newFailover(version, leader, candidate, scheduledAt) ==
    [version |-> version, leader |-> leader, candidate |-> candidate, scheduledAt |-> scheduledAt]

getClusterConfigFromConfigMap(config) ==
    [ttl |-> Lookup(config.ann, TTL), maxLagOnFailover |-> Lookup(config.ann, MaxLagOnFailover)]

getMemberFromPod(pod) == newMember(<<>>, pod, NoAnnotations)

EmptyCluster ==
    [SysID |-> <<>>, Config |-> Nil, Leader |-> Nil, Members |-> <<>>, FailOver |-> Nil,
     Extra |-> Nil]

(***************************************************************************)
(* ConfigurationStore.GetClusterFromKubernetes (Refresh).                  *)
(***************************************************************************)
\* pods := make([]*v1.Pod, 0, len(items)); pods[i] = &pod
\* a write at index i of a slice of length 0 is a run-time panic
PodPointers(items) ==
    IF Len(items) = 0 THEN [panic |-> FALSE, val |-> <<>>]
    ELSE [panic |-> TRUE, val |-> <<>>]

\* for _, cf := range items { switch cf.Name {...: config = &cf} }
\* With one range variable per loop (Go < 1.22) &cf is the same address in every
\* iteration and holds the last listed item once the loop is over.
SelectConfigMap(items, name) ==
    IF \E i \in 1..Len(items) : items[i].name = name
    THEN IF loopVarPerIter
         THEN items[CHOOSE i \in 1..Len(items) :
                       /\ items[i].name = name
                       /\ \A j \in (i + 1)..Len(items) : items[j].name # name]
         ELSE items[Len(items)]
    ELSE Nil

\* members := make([]*Member, 0, len(pods)); members[i] = getMemberFromPod(pod)
MembersFromPods(podPtrs) ==
    IF Len(podPtrs) = 0 THEN [panic |-> FALSE, val |-> <<>>]
    ELSE [panic |-> TRUE, val |-> <<>>]

\* var failover *Failover; if failover != nil { ... newFailover(...) }
DecodeFailover(failoverConfig) ==
    LET failover == Nil
    IN  IF failover # Nil
        THEN LET scheduledAt == Atoi(Lookup(failoverConfig.ann, ScheduledAt))
             IN  IF ~scheduledAt.err
                 THEN newFailover(failoverConfig.rv, Lookup(failoverConfig.ann, LeaderName),
                                  Lookup(failoverConfig.ann, Candidate), scheduledAt.val)
                 ELSE failover
        ELSE failover

loadClusterFromKubernetes(config, failoverConfig, podPtrs, cobj, extra, t) ==
    LET members == MembersFromPods(podPtrs)
    IN  [panic |-> members.panic,
         leaderObservedRecord |-> newLeaderRecord(cobj.ann),
         LeaderObservedTime |-> t,
         cluster |->
            [SysID    |-> IF config # Nil THEN Lookup(config.ann, SysID) ELSE <<>>,
             Config   |-> IF config # Nil THEN getClusterConfigFromConfigMap(config) ELSE Nil,
             Leader   |-> newLeader(cobj.rv,
                                    newMember(<<"-", "1">>, Lookup(cobj.ann, LeaderName),
                                              NoAnnotations)),
             Members  |-> members.val,
             FailOver |-> DecodeFailover(failoverConfig),
             Extra    |-> extra]]

\* the snapshot that the most recent successful Refresh assembled, the initial
\* empty snapshot before the first one
Assembled == IF lastRefresh = Nil THEN EmptyCluster ELSE lastRefresh.assembled

\* the outcome of a Refresh
RefreshRecord(res, snapshot) == [res |-> res, assembled |-> snapshot]

GetClusterFromKubernetes ==
    /\ ~crashed
    /\ \E fail \in {"none", "pods", "configmaps", "cluster"} :
         LET podPtrs == PodPointers(pods)
             loaded  == loadClusterFromKubernetes(
                            SelectConfigMap(configMaps, ConfigName),
                            SelectConfigMap(configMaps, FailoverName),
                            podPtrs.val, clusterObj, NoAnnotations, now)
         IN  IF fail # "none" \/ ~clusterObj.present
             THEN /\ lastRefresh' = RefreshRecord("err", Assembled)
                  /\ UNCHANGED <<cs, crashed>>
             ELSE IF podPtrs.panic \/ loaded.panic
             THEN /\ lastRefresh' = RefreshRecord("panic", Assembled)
                  /\ crashed' = TRUE
                  /\ UNCHANGED cs
             ELSE /\ lastRefresh' = RefreshRecord("ok", loaded.cluster)
                  /\ cs' = [cs EXCEPT !.cluster = loaded.cluster,
                                      !.leaderObservedRecord = loaded.leaderObservedRecord,
                                      !.LeaderObservedTime = loaded.LeaderObservedTime]
                  /\ UNCHANGED crashed
    /\ UNCHANGED <<now, clusterObj, configMaps, pods, environ, loopVarPerIter, held,
                   writes, lastInit>>
    /\ UNCHANGED <<mgrVars, f>>

\* hands out a new empty snapshot instead of the held one
GetCluster_Empty == EmptyCluster

GetCluster == cs.cluster

GetClusterName == cs.clusterName

GetClusterCall ==
    /\ ~crashed
    /\ call' = [op |-> "GetCluster", ret |-> GetCluster]
    /\ UNCHANGED <<storeVars, engine, f>>

GetClusterNameCall ==
    /\ ~crashed
    /\ call' = [op |-> "GetClusterName", ret |-> GetClusterName]
    /\ UNCHANGED <<storeVars, engine, f>>

(***************************************************************************)
(* ConfigurationStore.Init.                                                *)
(***************************************************************************)
HasConfigMap(name) == \E i \in 1..Len(configMaps) : configMaps[i].name = name

LeaseAnnotations(t) ==
    (LeaderName :> FirstLabel(environ.KbPrimaryPodName))
    @@ (AcquireTime :> FormatInt(t))
    @@ (RenewTime :> FormatInt(t))
    @@ (TTL :> environ.KbTtl)

ConfigAnnotations(sysID) ==
    (SysID :> sysID) @@ (TTL :> environ.KbTtl) @@ (MaxLagOnFailover :> environ.MaxLagOnFailover)

\* the store calls of Init, in the order of the code
InitOrder == <<"get", "update", "config", "extra">>

\* the calls made by an Init that ends at `step`
InitOps(step, extra) ==
    CASE step = "get" -> SubSeq(InitOrder, 1, 1)
      [] step = "update" -> SubSeq(InitOrder, 1, 2)
      [] step = "config" -> SubSeq(InitOrder, 1, 3)
      [] step = "extra" -> InitOrder
      [] OTHER -> IF extra = Nil THEN SubSeq(InitOrder, 1, 3) ELSE InitOrder

\* undoes the lease write when a later step fails
InitOutcome_Rollback(step, sysID, extra, t) ==
    IF step = "done" /\ extra = Nil
    THEN [clusterObj |-> [clusterObj EXCEPT !.rv = @ + 1, !.ann = LeaseAnnotations(t)],
          configMaps |-> Append(configMaps, [name |-> ConfigName, rv |-> 1,
                                             ann |-> ConfigAnnotations(sysID)])]
    ELSE IF step = "done"
    THEN [clusterObj |-> [clusterObj EXCEPT !.rv = @ + 1, !.ann = LeaseAnnotations(t)],
          configMaps |-> Append(Append(configMaps,
                                       [name |-> ConfigName, rv |-> 1,
                                        ann |-> ConfigAnnotations(sysID)]),
                                [name |-> ExtraName, rv |-> 1, ann |-> extra])]
    ELSE [clusterObj |-> clusterObj, configMaps |-> configMaps]

\* the store after an Init that ends at `step`: what was written stays written
InitOutcome(step, sysID, extra, t) ==
    LET written   == [clusterObj EXCEPT !.rv = @ + 1, !.ann = LeaseAnnotations(t)]
        cfgRecord == [name |-> ConfigName, rv |-> 1, ann |-> ConfigAnnotations(sysID)]
        extRecord == [name |-> ExtraName, rv |-> 1, ann |-> extra]
    IN  [clusterObj |-> IF step \in {"get", "update"} THEN clusterObj ELSE written,
         configMaps |-> IF step \in {"get", "update", "config"} THEN configMaps
                        ELSE IF step = "extra" \/ extra = Nil
                        THEN Append(configMaps, cfgRecord)
                        ELSE Append(Append(configMaps, cfgRecord), extRecord)]

\* The steps in order; `fail` is the step at which the store or the network
\* fails, besides the refusals the store's contents force (no cluster object, a
\* record that already exists); `fault` records that the failure was of that kind.
ConfigurationStoreInit(sysID, extra) ==
    /\ ~crashed
    /\ clusterObj.rv < MaxVersion
    /\ \E fail \in {"none", "get", "update", "config", "extra"} :
         LET getErr    == fail = "get" \/ ~clusterObj.present
             updErr    == fail = "update"
             cfgErr    == fail = "config" \/ HasConfigMap(ConfigName)
             extErr    == extra # Nil /\ (fail = "extra" \/ HasConfigMap(ExtraName))
             step      == IF getErr THEN "get" ELSE IF updErr THEN "update"
                          ELSE IF cfgErr THEN "config" ELSE IF extErr THEN "extra"
                          ELSE "done"
             outcome   == InitOutcome(step, sysID, extra, now)
         IN  /\ fail = "extra" => extra # Nil
             /\ clusterObj' = outcome.clusterObj
             /\ configMaps' = outcome.configMaps
             /\ lastInit' = [res |-> IF step = "done" THEN "ok" ELSE "err", step |-> step,
                             at |-> now, ops |-> InitOps(step, extra), extra |-> extra,
                             fault |-> fail = step]
    /\ UNCHANGED <<now, pods, environ, loopVarPerIter, cs, crashed, held, writes,
                   lastRefresh>>
    /\ UNCHANGED <<mgrVars, f>>

(***************************************************************************)
(* GetClusterObj / UpdateClusterObj and the store's compare-and-swap.      *)
(***************************************************************************)
NodeName(n) == IF n = "n1" THEN NameA ELSE NameB

\* the store's Update: accepted iff the object carries the current resourceVersion
StoreUpdate(obj) == clusterObj.present /\ obj.rv = clusterObj.rv

\* dynamicClient...Get(ctx, clusterName): the object as stored, version included
GetClusterObj == clusterObj

\* a writer that overwrites the version it read with the latest one
UpdateClusterObj_Latest(obj) == StoreUpdate([obj EXCEPT !.rv = clusterObj.rv])

\* dynamicClient...Update(ctx, obj): obj is passed on as the caller holds it
UpdateClusterObj(obj) == StoreUpdate(obj)

GetClusterObjCall(n) ==
    /\ ~crashed
    /\ clusterObj.present
    /\ held' = [held EXCEPT ![n] = GetClusterObj]
    /\ UNCHANGED <<now, clusterObj, configMaps, pods, environ, loopVarPerIter, cs, crashed,
                   writes, lastInit, lastRefresh>>
    /\ UNCHANGED <<mgrVars, f>>

\* the caller's leadership claim: itself as leader, the lease renewed now
LeaderClaim(obj, n, ttl) ==
    [obj EXCEPT !.ann = (LeaderName :> NodeName(n)) @@ (AcquireTime :> FormatInt(now))
                        @@ (RenewTime :> FormatInt(now)) @@ (TTL :> ttl)]

UpdateClusterObjCall(n) ==
    /\ ~crashed
    /\ held[n] # Nil
    /\ clusterObj.rv < MaxVersion
    /\ Len(writes) < MaxWrites
    /\ LET obj == LeaderClaim(held[n], n, <<"1">>)
           ok  == UpdateClusterObj(obj)
       IN  /\ clusterObj' = IF ok THEN [obj EXCEPT !.rv = clusterObj.rv + 1] ELSE clusterObj
           /\ writes' = Append(writes, [node |-> n, rv |-> held[n].rv,
                                        storeRv |-> clusterObj.rv, ok |-> ok])
    /\ UNCHANGED <<now, configMaps, pods, environ, loopVarPerIter, cs, crashed, held,
                   lastInit, lastRefresh>>
    /\ UNCHANGED <<mgrVars, f>>

(***************************************************************************)
(* The environment of the store: time, pods, records made by others.       *)
(***************************************************************************)
Tick ==
    /\ ~crashed
    /\ now < MaxTime
    /\ now' = now + 1
    /\ UNCHANGED <<clusterObj, configMaps, pods, environ, loopVarPerIter, cs, crashed, held,
                   writes, lastInit, lastRefresh>>
    /\ UNCHANGED <<mgrVars, f>>

PodCreated ==
    /\ ~crashed
    /\ Len(pods) < MaxPods
    /\ pods' = Append(pods, PodNames[Len(pods) + 1])
    /\ UNCHANGED <<now, clusterObj, configMaps, environ, loopVarPerIter, cs, crashed, held,
                   writes, lastInit, lastRefresh>>
    /\ UNCHANGED <<mgrVars, f>>

PodDeleted ==
    /\ ~crashed
    /\ Len(pods) > 0
    /\ pods' = SubSeq(pods, 1, Len(pods) - 1)
    /\ UNCHANGED <<now, clusterObj, configMaps, environ, loopVarPerIter, cs, crashed, held,
                   writes, lastInit, lastRefresh>>
    /\ UNCHANGED <<mgrVars, f>>

\* an operator records a failover intent
FailoverCreated(scheduledAt) ==
    /\ ~crashed
    /\ ~HasConfigMap(FailoverName)
    /\ configMaps' = Append(configMaps,
          [name |-> FailoverName, rv |-> 1,
           ann |-> (LeaderName :> NameA) @@ (Candidate :> NameB)
                   @@ (ScheduledAt :> scheduledAt)])
    /\ UNCHANGED <<now, clusterObj, pods, environ, loopVarPerIter, cs, crashed, held,
                   writes, lastInit, lastRefresh>>
    /\ UNCHANGED <<mgrVars, f>>

ConfigMapDeleted(i) ==
    /\ ~crashed
    /\ i \in 1..Len(configMaps)
    /\ configMaps' = SubSeq(configMaps, 1, i - 1) \o SubSeq(configMaps, i + 1, Len(configMaps))
    /\ UNCHANGED <<now, clusterObj, pods, environ, loopVarPerIter, cs, crashed, held,
                   writes, lastInit, lastRefresh>>
    /\ UNCHANGED <<mgrVars, f>>

(***************************************************************************)
(* The WeSQL engine manager: queries over a snapshot and the engine.       *)
(***************************************************************************)
Leader == "Leader"
Roles == {Leader, "Follower", "Learner"}

\* the snapshot's leader member (spec section 4.2: none when the snapshot has no leader)
GetLeaderMember(cluster) == cluster.Leader

\* a comparison turned around: == for != at the name test
IsLeaderMember_SameName(cluster, member) ==
    IF member = Nil THEN [ret |-> FALSE, err |-> FALSE]
    ELSE LET leaderMember == GetLeaderMember(cluster)
         IN  IF leaderMember = Nil THEN [ret |-> FALSE, err |-> FALSE]
             ELSE IF leaderMember.Name = member.Name THEN [ret |-> FALSE, err |-> FALSE]
             ELSE [ret |-> TRUE, err |-> FALSE]

IsLeaderMember(cluster, member) ==
    IF member = Nil THEN [ret |-> FALSE, err |-> FALSE]
    ELSE LET leaderMember == GetLeaderMember(cluster)
         IN  IF leaderMember = Nil THEN [ret |-> FALSE, err |-> FALSE]
             ELSE IF leaderMember.Name # member.Name THEN [ret |-> FALSE, err |-> FALSE]
             ELSE [ret |-> TRUE, err |-> FALSE]

\* the engine-specific liveness probe: h is the set of names it answers true for
IsMemberHealthy(member, h) == member.Name \in h

\* The members the returned pointers denote once the call has returned.
\* members = append(members, &member): with one range variable per loop
\* (Go < 1.22) every pointer is the address of that variable, which holds the
\* last roster entry when the loop is over.
HasOtherHealthyMembers(cluster, leader, h) ==
    LET chosen == SelectSeq(cluster.Members,
                            LAMBDA m : m.Name # leader /\ IsMemberHealthy(m, h))
    IN  IF loopVarPerIter THEN chosen
        ELSE [i \in 1..Len(chosen) |-> cluster.Members[Len(cluster.Members)]]

\* leaderRecord after QueryRowsMap has run the callback over the rows
RECURSIVE ScanLeaderRecord(_, _)
ScanLeaderRecord(rows, leaderRecord) ==
    IF rows = <<>> THEN leaderRecord
    ELSE ScanLeaderRecord(Tail(rows),
                          IF Head(rows).ROLE = Leader THEN Head(rows) ELSE leaderRecord)

\* the query's error is not looked at
IsClusterHealthy_NoErrCheck(connOK, queryOK, rows) ==
    IF ~connOK THEN FALSE
    ELSE Cardinality(DOMAIN ScanLeaderRecord(rows, <<>>)) > 0

IsClusterHealthy(connOK, queryOK, rows) ==
    IF ~connOK THEN FALSE
    ELSE LET leaderRecord == ScanLeaderRecord(rows, <<>>)
         IN  IF ~queryOK THEN FALSE
             ELSE Cardinality(DOMAIN leaderRecord) > 0

\* sample arguments
RECURSIVE DistinctSeqs(_, _)
DistinctSeqs(S, n) ==
    IF n = 0 THEN {<<>>}
    ELSE LET shorter == DistinctSeqs(S, n - 1)
         IN  shorter \cup {Append(q, x) : q \in {r \in shorter : Len(r) = n - 1}, x \in S}

Rosters ==
    {[i \in 1..Len(q) |-> newMember(FormatInt(i - 1), q[i], NoAnnotations)] :
        q \in {r \in DistinctSeqs(Names, MaxMembers) :
                  \A i, j \in 1..Len(r) : i # j => r[i] # r[j]}}

SnapshotLeaders ==
    {Nil} \cup {newLeader(1, newMember(<<"-", "1">>, n, NoAnnotations)) : n \in Names \cup {<<>>}}

Snapshots ==
    {[EmptyCluster EXCEPT !.Leader = l, !.Members = r] : l \in SnapshotLeaders, r \in Rosters}

MemberArgs == {Nil} \cup {newMember(<<"0">>, n, NoAnnotations) : n \in Names \cup {<<>>}}

RECURSIVE RowSeqs(_)
RowSeqs(n) ==
    IF n = 0 THEN {<<>>}
    ELSE LET shorter == RowSeqs(n - 1)
         IN  shorter \cup {Append(q, [ROLE |-> r]) : q \in {x \in shorter : Len(x) = n - 1},
                                                    r \in Roles}

LeaseTexts == {<<>>, <<"0">>, <<"2">>, <<"1", "0">>, <<"-", "1">>, <<"x">>}

LeaseData ==
    {(LeaderName :> NameA) @@ (AcquireTime :> a) @@ (RenewTime :> r) @@ (TTL :> t) :
        a \in {<<"0">>}, r \in LeaseTexts, t \in LeaseTexts}
    \cup {NoAnnotations}

IsLeaderMemberCall ==
    /\ call = Nil
    /\ \E c \in Snapshots, m \in MemberArgs :
           /\ call' = [op |-> "IsLeaderMember", cluster |-> c, member |-> m,
                       ret |-> IsLeaderMember(c, m).ret, err |-> IsLeaderMember(c, m).err]
           /\ UNCHANGED <<storeVars, engine, f>>

HasOtherHealthyMembersCall ==
    /\ call = Nil
    /\ \E c \in {x \in Snapshots : x.Leader = Nil}, l \in Names \cup {<<>>}, h \in SUBSET Names :
           /\ call' = [op |-> "HasOtherHealthyMembers", cluster |-> c, leader |-> l,
                       healthy |-> h, ret |-> HasOtherHealthyMembers(c, l, h)]
           /\ UNCHANGED <<storeVars, engine, f>>

IsClusterHealthyCall ==
    /\ call = Nil
    /\ \E connOK \in BOOLEAN, queryOK \in BOOLEAN, rows \in RowSeqs(MaxRows) :
           /\ call' = [op |-> "IsClusterHealthy", connOK |-> connOK, queryOK |-> queryOK,
                       rows |-> rows, ret |-> IsClusterHealthy(connOK, queryOK, rows)]
           /\ UNCHANGED <<storeVars, engine, f>>

newLeaderRecordCall ==
    /\ call = Nil
    /\ \E data \in LeaseData :
           /\ call' = [op |-> "newLeaderRecord", data |-> data, ret |-> newLeaderRecord(data)]
           /\ UNCHANGED <<storeVars, engine, f>>

(***************************************************************************)
(* The WeSQL engine manager: role, membership string, Promote and          *)
(* LeaveMemberFromCluster.                                                 *)
(***************************************************************************)
CurrentMemberName == <<"p", "1">>
EngineNames == {<<"p", "1">>, <<"p", "1", "0">>, <<"p", "2">>}
RoleTexts == {"Leader", "leader", "Follower"}

\* the engine's reply to the role query of the local connection
GetReplicaRole(roleOK, role) ==
    IF roleOK THEN [role |-> role, err |-> FALSE] ELSE [role |-> "", err |-> TRUE]

ToLower(r) ==
    CASE r \in {"Leader", "leader", "LEADER"} -> "leader"
      [] r \in {"Follower", "follower", "FOLLOWER"} -> "follower"
      [] r \in {"Learner", "learner", "LEARNER"} -> "learner"
      [] OTHER -> r

EqualFold(a, b) == ToLower(a) = ToLower(b)

IsLeader(roleOK, role) ==
    LET r == GetReplicaRole(roleOK, role)
    IN  IF r.err THEN [ret |-> FALSE, err |-> TRUE]
        ELSE IF EqualFold(r.role, Leader) THEN [ret |-> TRUE, err |-> FALSE]
        ELSE [ret |-> FALSE, err |-> FALSE]

\* strings.Split(s, sep), sep one character
RECURSIVE Split(_, _)
Split(s, sep) ==
    IF \E i \in 1..Len(s) : s[i] = sep
    THEN LET i == CHOOSE k \in 1..Len(s) : s[k] = sep /\ \A j \in 1..(k - 1) : s[j] # sep
         IN  <<SubSeq(s, 1, i - 1)>> \o Split(SubSeq(s, i + 1, Len(s)), sep)
    ELSE <<s>>

\* strings.Contains(s, sep), sep one character
Contains(s, sep) == \E i \in 1..Len(s) : s[i] = sep

HasPrefix(s, prefix) == Len(prefix) <= Len(s) /\ SubSeq(s, 1, Len(prefix)) = prefix

\* the connection to the snapshot's leader: db names the member it reaches
GetLeaderConn(cluster, connOK) ==
    IF cluster.Leader = Nil \/ ~connOK THEN [db |-> Nil, err |-> TRUE]
    ELSE [db |-> cluster.Leader.Name, err |-> FALSE]

\* info is the cluster_info column of mysql.consensus_info on the connection used
GetClusterInfo(cluster, connOK, queryOK, info) ==
    IF cluster # Nil /\ GetLeaderConn(cluster, connOK).err THEN <<>>
    ELSE IF ~queryOK THEN <<>>
    ELSE info

RECURSIVE StripWeights(_)
StripWeights(entries) ==
    IF entries = <<>> THEN <<>>
    ELSE IF ~Contains(Head(entries), ":") THEN StripWeights(Tail(entries))
    ELSE <<Split(Head(entries), "#")[1]>> \o StripWeights(Tail(entries))

\* keeps the entries that lack the port separator
GetMemberAddrs_KeepAll(cluster, connOK, queryOK, info) ==
    LET clusterInfo == Split(GetClusterInfo(cluster, connOK, queryOK, info), "@")[1]
        entries == Split(clusterInfo, ";")
    IN  [i \in 1..Len(entries) |-> Split(entries[i], "#")[1]]

GetMemberAddrs(cluster, connOK, queryOK, info) ==
    LET clusterInfo == Split(GetClusterInfo(cluster, connOK, queryOK, info), "@")[1]
    IN  StripWeights(Split(clusterInfo, ";"))

RECURSIVE FirstWithPrefix(_, _)
FirstWithPrefix(addrs, memberName) ==
    IF addrs = <<>> THEN <<>>
    ELSE IF HasPrefix(Head(addrs), memberName) THEN Head(addrs)
    ELSE FirstWithPrefix(Tail(addrs), memberName)

\* returns the last address that has the prefix
GetAddrWithMemberName_Last(cluster, connOK, queryOK, info, memberName) ==
    LET addrs == GetMemberAddrs(cluster, connOK, queryOK, info)
        rev == [i \in 1..Len(addrs) |-> addrs[Len(addrs) + 1 - i]]
    IN  FirstWithPrefix(rev, memberName)

GetAddrWithMemberName(cluster, connOK, queryOK, info, memberName) ==
    FirstWithPrefix(GetMemberAddrs(cluster, connOK, queryOK, info), memberName)

\* the address the engine lists a member under, and the membership string it reports
Address(name) == name \o <<".", "h", ":", "3">>

RECURSIVE Join(_, _)
Join(parts, sep) ==
    IF parts = <<>> THEN <<>>
    ELSE IF Len(parts) = 1 THEN parts[1]
    ELSE parts[1] \o <<sep>> \o Join(Tail(parts), sep)

ClusterInfoText(members) ==
    IF members = <<>> THEN <<>>
    ELSE Join([i \in 1..Len(members) |-> Address(members[i]) \o <<"#", "1">>], ";")
         \o <<"@", "1">>

\* fmt.Sprintf("call dbms_consensus.<verb>('%s');", addr)
Stmt(verb, addr) == [verb |-> verb, addr |-> addr]

NoError == Nil
NewError(msg, sql) == [msg |-> msg, sql |-> sql]

\* w: what the engine and the network answer during one call: the role query,
\* the two resolutions of the leader connection (the second one inside
\* GetClusterInfo), the cluster_info query and the statement's execution.
\* An answer that comes after a failed one is never asked for and stays TRUE.
Worlds ==
    {w \in [role : BOOLEAN, conn : BOOLEAN, conn2 : BOOLEAN, info : BOOLEAN, exec : BOOLEAN] :
        /\ ~w.conn => w.conn2
        /\ ~w.conn2 => w.info
        /\ ~w.info => w.exec}

\* issues the command although this node is the leader
Promote_NoLeaderCheck(cluster, w, e) ==
    LET db == GetLeaderConn(cluster, w.conn)
        addr == GetAddrWithMemberName(cluster, w.conn2, w.info, ClusterInfoText(e.members),
                                      CurrentMemberName)
    IN  IF db.err THEN [err |-> NewError("Get leader conn failed", <<>>), issued |-> <<>>]
        ELSE IF addr = <<>>
        THEN [err |-> NewError("get current member's addr failed", <<>>), issued |-> <<>>]
        ELSE [err |-> IF w.exec THEN NoError ELSE NewError("exec failed", <<>>),
              issued |-> <<[conn |-> db.db, sql |-> <<Stmt("change_leader", addr)>>]>>]

Promote(cluster, w, e) ==
    LET isLeader == IsLeader(w.role, e.role).ret
        db == GetLeaderConn(cluster, w.conn)
        addr == GetAddrWithMemberName(cluster, w.conn2, w.info, ClusterInfoText(e.members),
                                      CurrentMemberName)
    IN  IF isLeader THEN [err |-> NoError, issued |-> <<>>]
        ELSE IF db.err THEN [err |-> NewError("Get leader conn failed", <<>>), issued |-> <<>>]
        ELSE IF addr = <<>>
        THEN [err |-> NewError("get current member's addr failed", <<>>), issued |-> <<>>]
        ELSE [err |-> IF w.exec THEN NoError ELSE NewError("exec failed", <<>>),
              issued |-> <<[conn |-> db.db, sql |-> <<Stmt("change_leader", addr)>>]>>]

LeaveStatements(addr) == <<Stmt("downgrade_follower", addr), Stmt("drop_learner", addr)>>

\* drops the learner first
LeaveMemberFromCluster_DropFirst(cluster, memberName, w, e) ==
    LET db == GetLeaderConn(cluster, w.conn)
        addr == GetAddrWithMemberName(cluster, w.conn2, w.info, ClusterInfoText(e.members),
                                      memberName)
        sql == <<Stmt("drop_learner", addr), Stmt("downgrade_follower", addr)>>
    IN  IF db.err THEN [err |-> NewError("Get leader conn failed", <<>>), issued |-> <<>>]
        ELSE IF addr = <<>> THEN [err |-> NoError, issued |-> <<>>]
        ELSE [err |-> IF w.exec THEN NoError ELSE NewError("error executing", sql),
              issued |-> <<[conn |-> db.db, sql |-> sql]>>]

LeaveMemberFromCluster(cluster, memberName, w, e) ==
    LET db == GetLeaderConn(cluster, w.conn)
        addr == GetAddrWithMemberName(cluster, w.conn2, w.info, ClusterInfoText(e.members),
                                      memberName)
        sql == LeaveStatements(addr)
    IN  IF db.err THEN [err |-> NewError("Get leader conn failed", <<>>), issued |-> <<>>]
        ELSE IF addr = <<>> THEN [err |-> NoError, issued |-> <<>>]
        ELSE [err |-> IF w.exec THEN NoError ELSE NewError("error executing", sql),
              issued |-> <<[conn |-> db.db, sql |-> sql]>>]

\* What a statement batch that the engine executed does to it: a member that
\* is downgraded and dropped leaves the membership; change_leader to this
\* node's address makes this node the leader.
RECURSIVE Executed(_, _)
Executed(e, sql) ==
    IF sql = <<>> THEN e
    ELSE LET s == Head(sql)
             after ==
                 CASE s.verb = "drop_learner" ->
                          [e EXCEPT !.members = SelectSeq(e.members,
                                                          LAMBDA m : Address(m) # s.addr)]
                   [] s.verb = "change_leader" /\ s.addr = Address(CurrentMemberName) ->
                          [e EXCEPT !.role = Leader]
                   [] OTHER -> e
         IN  Executed(after, Tail(sql))

AfterCall(e, r) ==
    LET done == IF r.issued # <<>> /\ r.err = NoError THEN Executed(e, r.issued[1].sql) ELSE e
    IN  [done EXCEPT !.n = e.n + 1]

EngineLeaders == {Nil, newLeader(1, newMember(<<"0">>, <<"p", "2">>, NoAnnotations))}

EngineSnapshots == {[EmptyCluster EXCEPT !.Leader = l] : l \in EngineLeaders}

PromoteCall ==
    /\ engine.n < MaxCalls
    /\ \E cluster \in EngineSnapshots, w \in Worlds :
           LET r == Promote(cluster, w, engine)
           IN  /\ call' = [op |-> "Promote", cluster |-> cluster,
                           member |-> CurrentMemberName,
                           isLeader |-> IsLeader(w.role, engine.role),
                           db |-> GetLeaderConn(cluster, w.conn),
                           addr |-> GetAddrWithMemberName(cluster, w.conn2, w.info,
                                        ClusterInfoText(engine.members), CurrentMemberName),
                           exec |-> w.exec, err |-> r.err, issued |-> r.issued]
               /\ engine' = AfterCall(engine, r)
    /\ UNCHANGED <<storeVars, f>>

LeaveMemberFromClusterCall ==
    /\ engine.n < MaxCalls
    /\ \E cluster \in EngineSnapshots, memberName \in EngineNames,
          w \in {x \in Worlds : x.role} :
           LET r == LeaveMemberFromCluster(cluster, memberName, w, engine)
           IN  /\ call' = [op |-> "LeaveMemberFromCluster", cluster |-> cluster,
                           member |-> memberName,
                           isLeader |-> Nil,
                           db |-> GetLeaderConn(cluster, w.conn),
                           addr |-> GetAddrWithMemberName(cluster, w.conn2, w.info,
                                        ClusterInfoText(engine.members), memberName),
                           exec |-> w.exec, err |-> r.err, issued |-> r.issued]
               /\ engine' = AfterCall(engine, r)
    /\ UNCHANGED <<storeVars, f>>

\* the engine's own consensus layer admits a member
MemberJoined(name) ==
    /\ \A i \in 1..Len(engine.members) : engine.members[i] # name
    /\ engine' = [engine EXCEPT !.members = Append(@, name)]
    /\ UNCHANGED <<storeVars, call, f>>

\* an election of the engine changes the role this node reports
RoleChanged(role) ==
    /\ engine.role # role
    /\ engine' = [engine EXCEPT !.role = role]
    /\ UNCHANGED <<storeVars, call, f>>

\* sample membership strings: up to MaxEntries entries, well-formed and not,
\* with and without the epoch suffix, and the string of spec section 8
EntryTexts ==
    {<<"a", ":", "1">>, <<"a", ":", "1", "#", "1">>, <<"b">>, <<"b", "#", "1">>,
     <<"c", ":", "2", "#", "1", "#", "2">>}

EpochTexts == {<<>>, <<"@", "1">>, <<"@", "1", ";", "d", ":", "4">>}

ExampleInfo ==
    <<"1", "0", ".", "0", ".", "0", ".", "1", ":", "1", "3", "3", "0", "6", "#", "1", ";",
      "1", "0", ".", "0", ".", "0", ".", "2", ":", "1", "3", "3", "0", "6", "#", "1",
      "@", "1", "0", "0", "0">>

ExampleAddrs ==
    <<<<"1", "0", ".", "0", ".", "0", ".", "1", ":", "1", "3", "3", "0", "6">>,
      <<"1", "0", ".", "0", ".", "0", ".", "2", ":", "1", "3", "3", "0", "6">>>>

InfoTexts ==
    {Join(q, ";") \o x : q \in DistinctSeqs(EntryTexts, MaxEntries), x \in EpochTexts}
    \cup {ExampleInfo}

MemberNameArgs ==
    {<<>>, <<"a">>, <<"b">>, <<"c">>, <<"a", ":", "1">>, <<"a", ":", "2">>, <<"1", "0">>,
     <<"1", "0", ".", "0", ".", "0", ".", "2">>}

QueryClusters == {Nil} \cup EngineSnapshots

GetMemberAddrsCall ==
    /\ call = Nil
    /\ \E cluster \in QueryClusters, connOK \in BOOLEAN, queryOK \in BOOLEAN,
          info \in InfoTexts :
           /\ call' = [op |-> "GetMemberAddrs", cluster |-> cluster,
                       clusterInfo |-> GetClusterInfo(cluster, connOK, queryOK, info),
                       ret |-> GetMemberAddrs(cluster, connOK, queryOK, info)]
           /\ UNCHANGED <<storeVars, engine, f>>

GetAddrWithMemberNameCall ==
    /\ call = Nil
    /\ \E cluster \in QueryClusters, connOK \in BOOLEAN, queryOK \in BOOLEAN,
          info \in InfoTexts, memberName \in MemberNameArgs :
           /\ call' = [op |-> "GetAddrWithMemberName", cluster |-> cluster,
                       memberName |-> memberName,
                       addrs |-> GetMemberAddrs(cluster, connOK, queryOK, info),
                       ret |-> GetAddrWithMemberName(cluster, connOK, queryOK, info,
                                                     memberName)]
           /\ UNCHANGED <<storeVars, engine, f>>

\* this node's own view of the cluster: the row of the local status table,
\* nil when there is none, or an error
LeaderAddrTexts ==
    {<<>>, <<"a", ".", "h", ":", "3">>, <<"b">>, <<"d", ".", "x", ".", "y">>, <<".", "h">>}

LocalInfos ==
    {[err |-> TRUE, info |-> Nil], [err |-> FALSE, info |-> Nil]}
    \cup {[err |-> FALSE, info |-> [ROLE |-> r, CURRENT_LEADER |-> a]] :
             r \in RoleTexts, a \in LeaderAddrTexts}

GetClusterLocalInfo(local) == local

\* the roster member of that name, none when the roster has no such member
GetMemberWithName(cluster, name) ==
    IF \E i \in 1..Len(cluster.Members) : cluster.Members[i].Name = name
    THEN cluster.Members[CHOOSE i \in 1..Len(cluster.Members) :
                            /\ cluster.Members[i].Name = name
                            /\ \A j \in 1..(i - 1) : cluster.Members[j].Name # name]
    ELSE Nil

HasOtherHealthyLeader(cluster, local) ==
    LET clusterLocalInfo == GetClusterLocalInfo(local)
    IN  IF clusterLocalInfo.err \/ clusterLocalInfo.info = Nil THEN Nil
        ELSE IF clusterLocalInfo.info.ROLE = Leader THEN Nil
        ELSE LET leaderAddr == clusterLocalInfo.info.CURRENT_LEADER
                 leaderParts == Split(leaderAddr, ".")
             IN  IF leaderAddr = <<>> THEN Nil
                 ELSE IF Len(leaderParts) > 0
                 THEN GetMemberWithName(cluster, leaderParts[1])
                 ELSE Nil

HasOtherHealthyLeaderCall ==
    /\ call = Nil
    /\ \E cluster \in {x \in Snapshots : x.Leader = Nil}, local \in LocalInfos :
           /\ call' = [op |-> "HasOtherHealthyLeader", cluster |-> cluster, local |-> local,
                       ret |-> HasOtherHealthyLeader(cluster, local)]
           /\ UNCHANGED <<storeVars, engine, f>>

\* The lifecycle hooks. Each result says whether the call aborted in a run-time
\* panic, the error returned and the statements sent to the engine.
Returned(err) == [panic |-> FALSE, err |-> err, issued |-> <<>>]
Aborted == [panic |-> TRUE, err |-> NoError, issued |-> <<>>]

InitializeCluster(cluster) == Returned(NoError)

InitiateCluster(cluster) == Returned(NoError)

Recover(cluster) == Returned(NoError)

JoinCurrentMemberToCluster(cluster) == Returned(NoError)

Demote == Returned(NoError)

\* mgr.Logger.Info(..., "leader name", cluster.Leader.Name): Leader is a pointer,
\* nil in a snapshot without a leader
Follow(cluster) == IF cluster.Leader = Nil THEN Aborted ELSE Returned(NoError)

IsMemberLagging(cluster, member) == <<FALSE, 0>>

LifecycleOps ==
    {"InitializeCluster", "InitiateCluster", "Recover", "JoinCurrentMemberToCluster",
     "Demote", "Follow"}

LifecycleCall(op, cluster, r) ==
    /\ call = Nil
    /\ ~crashed
    /\ call' = [op |-> op, cluster |-> cluster, panic |-> r.panic, err |-> r.err,
                issued |-> r.issued]
    /\ crashed' = r.panic
    /\ UNCHANGED <<now, clusterObj, configMaps, pods, environ, loopVarPerIter, cs, held,
                   writes, lastInit, lastRefresh, engine, f>>

InitializeClusterCall ==
    \E cluster \in EngineSnapshots :
        LifecycleCall("InitializeCluster", cluster, InitializeCluster(cluster))

InitiateClusterCall ==
    \E cluster \in EngineSnapshots :
        LifecycleCall("InitiateCluster", cluster, InitiateCluster(cluster))

RecoverCall ==
    \E cluster \in EngineSnapshots : LifecycleCall("Recover", cluster, Recover(cluster))

JoinCurrentMemberToClusterCall ==
    \E cluster \in EngineSnapshots :
        LifecycleCall("JoinCurrentMemberToCluster", cluster,
                      JoinCurrentMemberToCluster(cluster))

DemoteCall == LifecycleCall("Demote", Nil, Demote)

FollowCall ==
    \E cluster \in EngineSnapshots : LifecycleCall("Follow", cluster, Follow(cluster))

IsMemberLaggingCall ==
    /\ call = Nil
    /\ \E cluster \in EngineSnapshots, member \in MemberArgs :
           /\ call' = [op |-> "IsMemberLagging", cluster |-> cluster, member |-> member,
                       ret |-> IsMemberLagging(cluster, member)]
           /\ UNCHANGED <<storeVars, engine, f>>

EngineIdle == engine = [members |-> <<>>, role |-> "Follower", n |-> 0]

(***************************************************************************)
(* Backups ordered by start time (controllers/dataprotection/utils.go).    *)
(***************************************************************************)
BackupNames == {<<"a">>, <<"a", "b">>, <<"b">>, <<"b", "a">>}
\* *metav1.Time: nil or a time
Stamps == {Nil} \cup {[Time |-> t] : t \in 1..MaxStamp}
Backups == [Name : BackupNames, StartTimestamp : Stamps]

\* the lists of backups, no name twice
BackupLists ==
    UNION {{o \in [1..n -> Backups] : \A i, j \in 1..n : o[i].Name = o[j].Name => i = j} :
               n \in 1..MaxBackups}

\* the order of Go strings: byte by byte, a proper prefix first
CharCode(c) == IF c = "a" THEN 97 ELSE 98
StringLess(s, t) ==
    \E k \in 0..Len(s) :
        /\ k <= Len(t)
        /\ \A i \in 1..k : s[i] = t[i]
        /\ IF k = Len(s) THEN k < Len(t)
           ELSE k < Len(t) /\ CharCode(s[k + 1]) < CharCode(t[k + 1])

\* (*metav1.Time).Equal and Before: both take nil pointers
TimeEqual(t, u) == IF t = Nil \/ u = Nil THEN t = Nil /\ u = Nil ELSE t = u
TimeBefore(t, u) == t # Nil /\ u # Nil /\ t.Time < u.Time

\* a Less without the tie-break on names
Less_NoTieBreak(o, i, j) ==
    IF o[i].StartTimestamp = Nil /\ o[j].StartTimestamp # Nil THEN FALSE
    ELSE IF o[i].StartTimestamp # Nil /\ o[j].StartTimestamp = Nil THEN TRUE
    ELSE TimeBefore(o[i].StartTimestamp, o[j].StartTimestamp)

Less(o, i, j) ==
    IF o[i].StartTimestamp = Nil /\ o[j].StartTimestamp # Nil THEN FALSE
    ELSE IF o[i].StartTimestamp # Nil /\ o[j].StartTimestamp = Nil THEN TRUE
    ELSE IF TimeEqual(o[i].StartTimestamp, o[j].StartTimestamp)
    THEN StringLess(o[i].Name, o[j].Name)
    ELSE TimeBefore(o[i].StartTimestamp, o[j].StartTimestamp)

\* sort.Sort asks Less about two positions of the list at hand
LessCall ==
    /\ call # Nil
    /\ call.op = "Sort"
    /\ \E i, j \in 1..Len(call.o) :
           call' = [op |-> "Less", o |-> call.o, i |-> i, j |-> j, ret |-> Less(call.o, i, j)]
    /\ UNCHANGED <<storeVars, engine, f>>

(***************************************************************************)
(* The configuration scanner (parser_fsm.go). The input is a string of     *)
(* bytes; a rune is decoded from one or two of them.                       *)
(***************************************************************************)
Lead == "C3"
Cont == "A9"
Bytes == {"n", " ", "\"", "'", "\\", Lead, Cont}
Lines == UNION {[1..n -> Bytes] : n \in 0..MaxLine}

eof == "eof"
RuneError == "RuneError"
singleQuotes == "'"
isEOF(r) == r = eof
isSplitCharacter(r) == r = " "
isQuotes(r) == r = "\""
isSingleQuotes(r) == r = singleQuotes
isEscape(r) == r = "\\"

\* utf8.DecodeRuneInString(f.input[f.currentPos:]) of a non-empty rest: a rune
\* and its width, RuneError with width 1 for a byte that starts no rune
DecodeRuneInString(input, pos) ==
    LET b == input[pos + 1]
    IN  IF b = Lead /\ pos + 2 <= Len(input) /\ input[pos + 2] = Cont
        THEN [r |-> "e'", w |-> 2]
        ELSE IF b \in {Lead, Cont} THEN [r |-> RuneError, w |-> 1]
        ELSE [r |-> b, w |-> 1]

NewFsm ==
    [param |-> <<>>, input |-> <<>>, currentPos |-> 0, lastScanWith |-> 0, err |-> Nil,
     token |-> <<>>, handle |-> "new"]

empty(x) == x.currentPos >= Len(x.input)

\* a next that reads the rune and leaves the position where it was
next_NoAdvance(x) ==
    IF empty(x) THEN [f |-> [x EXCEPT !.lastScanWith = 0], r |-> eof]
    ELSE LET d == DecodeRuneInString(x.input, x.currentPos)
         IN  [f |-> [x EXCEPT !.lastScanWith = d.w], r |-> d.r]

\* next and peek give the fsm after the call and the rune returned
next(x) ==
    IF empty(x) THEN [f |-> [x EXCEPT !.lastScanWith = 0], r |-> eof]
    ELSE LET d == DecodeRuneInString(x.input, x.currentPos)
         IN  [f |-> [x EXCEPT !.lastScanWith = d.w, !.currentPos = @ + d.w], r |-> d.r]

appendRune(x, r) == [x EXCEPT !.token = Append(@, r)]

peek(x) ==
    LET n == next(x)
    IN  [f |-> [n.f EXCEPT !.currentPos = @ - n.f.lastScanWith], r |-> n.r]

Goto(x, handle) == [x EXCEPT !.handle = handle]

prepareScan(x) ==
    LET n == next(x)
    IN  IF isEOF(n.r) THEN Goto(n.f, "stateEOF")
        ELSE IF isSplitCharacter(n.r) THEN Goto(n.f, "stateTokenEnd")
        ELSE IF isQuotes(n.r) THEN Goto(n.f, "stateQuotesString")
        ELSE IF isSingleQuotes(n.r) THEN Goto(n.f, "stateSQuotesString")
        ELSE Goto(appendRune(n.f, n.r), "prepareScan")

\* fmt.Errorf(format, args...) held in f.err
stateFailed(x, msg) == [x EXCEPT !.err = [msg |-> msg], !.handle = "nil"]

stateTokenEnd(x) ==
    [x EXCEPT !.param = Append(@, x.token), !.token = <<>>,
              !.handle = "stateTrimSplitCharacters"]

stateEOF(x) == Goto(IF Len(x.token) > 0 THEN stateTokenEnd(x) ELSE x, "nil")

\* the loop of stateTrimSplitCharacters from position pos on: peek, and while
\* the rune is a split character read it and peek again
RECURSIVE TrimLoop(_, _)
TrimLoop(x, pos) ==
    LET p == peek([x EXCEPT !.currentPos = pos])
    IN  IF ~isEOF(p.r) /\ isSplitCharacter(p.r)
        THEN TrimLoop(x, pos + p.f.lastScanWith)
        ELSE p.f

stateTrimSplitCharacters(x) == Goto(TrimLoop(x, x.currentPos), "prepareScan")

stateEscape(x) ==
    LET n == next(x)
    IN  IF isEOF(n.r) THEN n.f
        ELSE IF n.r = "n" THEN appendRune(n.f, "LF")
        ELSE IF n.r = "r" THEN appendRune(n.f, "CR")
        ELSE IF n.r = "t" THEN appendRune(n.f, "HT")
        ELSE IF n.r = "b" THEN appendRune(n.f, "BS")
        ELSE IF n.r = "a" THEN appendRune(n.f, "BEL")
        ELSE appendRune(n.f, n.r)

stateQuotesString(x) ==
    LET n == next(x)
        p == peek(n.f)
    IN  IF isEOF(n.r) THEN stateFailed(n.f, "unterminated quotes.")
        ELSE IF isQuotes(n.r)
        THEN IF ~isEOF(p.r) /\ ~isSplitCharacter(p.r)
             THEN stateFailed(p.f, "closing quote must be followed by a space or end.")
             ELSE Goto(p.f, "stateTokenEnd")
        ELSE IF isEscape(n.r)
        THEN IF isEOF(p.r) THEN stateFailed(p.f, "unterminated quotes.")
             ELSE Goto(stateEscape(p.f), "stateQuotesString")
        ELSE Goto(appendRune(n.f, n.r), "stateQuotesString")

\* a single-quote state that takes any closing quote as the end of the token
stateSQuotesString_AnyClose(x) ==
    LET n == next(x)
        p == peek(n.f)
    IN  IF isEOF(n.r) THEN stateFailed(n.f, "unterminated single quotes.")
        ELSE IF isSingleQuotes(n.r) THEN Goto(p.f, "stateTokenEnd")
        ELSE IF isEscape(n.r)
        THEN Goto(IF isSingleQuotes(p.r) THEN next(appendRune(p.f, singleQuotes)).f ELSE p.f,
                  "stateSQuotesString")
        ELSE Goto(appendRune(n.f, n.r), "stateSQuotesString")

stateSQuotesString(x) ==
    LET n == next(x)
        p == peek(n.f)
    IN  IF isEOF(n.r) THEN stateFailed(n.f, "unterminated single quotes.")
        ELSE IF isSingleQuotes(n.r)
        THEN IF ~isEOF(p.r) /\ ~isSplitCharacter(p.r)
             THEN stateFailed(p.f, "closing quote must be followed by a space or end.")
             ELSE Goto(p.f, "stateTokenEnd")
        ELSE IF isEscape(n.r)
        THEN Goto(IF isSingleQuotes(p.r) THEN next(appendRune(p.f, singleQuotes)).f ELSE p.f,
                  "stateSQuotesString")
        ELSE Goto(appendRune(n.f, n.r), "stateSQuotesString")

\* Parse(line) on a new fsm, the call pending with its argument: the input is
\* set and the loop starts at prepareScan
Parse ==
    /\ f.handle = "new"
    /\ call # Nil
    /\ call.op = "Parse"
    /\ f' = [f EXCEPT !.input = call.line, !.handle = "prepareScan"]
    /\ UNCHANGED <<storeVars, mgrVars>>

\* one turn of the loop of Parse: handle = handle(f)
HandlePrepareScan ==
    /\ f.handle = "prepareScan"
    /\ f' = prepareScan(f)
    /\ UNCHANGED <<storeVars, mgrVars>>

HandleStateEOF ==
    /\ f.handle = "stateEOF"
    /\ f' = stateEOF(f)
    /\ UNCHANGED <<storeVars, mgrVars>>

HandleStateTokenEnd ==
    /\ f.handle = "stateTokenEnd"
    /\ f' = stateTokenEnd(f)
    /\ UNCHANGED <<storeVars, mgrVars>>

HandleStateTrimSplitCharacters ==
    /\ f.handle = "stateTrimSplitCharacters"
    /\ f' = stateTrimSplitCharacters(f)
    /\ UNCHANGED <<storeVars, mgrVars>>

HandleStateQuotesString ==
    /\ f.handle = "stateQuotesString"
    /\ f' = stateQuotesString(f)
    /\ UNCHANGED <<storeVars, mgrVars>>

HandleStateSQuotesString ==
    /\ f.handle = "stateSQuotesString"
    /\ f' = stateSQuotesString(f)
    /\ UNCHANGED <<storeVars, mgrVars>>

(***************************************************************************)
(* The configuration store and its environment.                            *)
(***************************************************************************)
MgrIdle == call = Nil

InitStore ==
    /\ now = 0
    /\ clusterObj \in [present : BOOLEAN, rv : {1}, ann : {NoAnnotations}]
    /\ configMaps = <<>>
    /\ pods = <<>>
    /\ environ \in [KbPrimaryPodName : PodHostNames, KbTtl : TtlTexts,
                     MaxLagOnFailover : MaxLagTexts, KbClusterName : ClusterNames]
    /\ loopVarPerIter \in BOOLEAN
    /\ cs = [clusterName |-> environ.KbClusterName, cluster |-> EmptyCluster,
             leaderObservedRecord |-> Nil, LeaderObservedTime |-> 0]
    /\ crashed = FALSE
    /\ held = [n \in Nodes |-> Nil]
    /\ writes = <<>>
    /\ lastInit = Nil
    /\ lastRefresh = Nil

Init ==
    /\ InitStore
    /\ MgrIdle
    /\ EngineIdle
    /\ f = NewFsm

Next ==
    \/ GetClusterFromKubernetes
    \/ \E sysID \in SysIDs : ConfigurationStoreInit(sysID, Nil)
    \/ Tick
    \/ PodCreated
    \/ PodDeleted
    \/ \E t \in ScheduledAtTexts : FailoverCreated(t)
    \/ \E i \in 1..3 : ConfigMapDeleted(i)

Spec == Init /\ [][Next]_vars

(***************************************************************************)
(* Writers racing for the lease on the cluster object.                     *)
(***************************************************************************)
InitCas ==
    /\ Init
    /\ loopVarPerIter
    /\ environ.KbTtl = <<"2">>

NextCas ==
    \/ \E n \in Nodes : GetClusterObjCall(n)
    \/ \E n \in Nodes : UpdateClusterObjCall(n)
    \/ \E sysID \in SysIDs : ConfigurationStoreInit(sysID, Nil)

SpecCas == InitCas /\ [][NextCas]_vars

(***************************************************************************)
(* Readers of the held snapshot between refreshes.                         *)
(***************************************************************************)
InitAcc ==
    /\ Init
    /\ clusterObj.present
    /\ environ.KbTtl = <<"2">>

NextAcc ==
    \/ GetClusterCall
    \/ GetClusterNameCall
    \/ GetClusterFromKubernetes
    \/ \E sysID \in SysIDs : ConfigurationStoreInit(sysID, Nil)
    \/ Tick
    \/ PodCreated
    \/ PodDeleted

SpecAcc == InitAcc /\ [][NextAcc]_vars

(***************************************************************************)
(* Bootstrap: Init called once and again, with and without extra data.     *)
(***************************************************************************)
NextBoot ==
    \/ \E sysID \in SysIDs, extra \in Extras : ConfigurationStoreInit(sysID, extra)
    \/ Tick
    \/ \E i \in 1..3 : ConfigMapDeleted(i)

SpecBoot == InitCas /\ [][NextBoot]_vars

(***************************************************************************)
(* The query operations applied to sample arguments.                       *)
(***************************************************************************)
NextMgr ==
    \/ IsLeaderMemberCall
    \/ HasOtherHealthyMembersCall
    \/ IsClusterHealthyCall
    \/ newLeaderRecordCall
    \/ GetMemberAddrsCall
    \/ GetAddrWithMemberNameCall
    \/ HasOtherHealthyLeaderCall
    \/ InitializeClusterCall
    \/ InitiateClusterCall
    \/ RecoverCall
    \/ JoinCurrentMemberToClusterCall
    \/ DemoteCall
    \/ FollowCall
    \/ IsMemberLaggingCall

SpecMgr == Init /\ [][NextMgr]_vars

(***************************************************************************)
(* Promote and LeaveMemberFromCluster against a running engine.            *)
(***************************************************************************)
NextEng ==
    \/ PromoteCall
    \/ LeaveMemberFromClusterCall
    \/ \E name \in EngineNames : MemberJoined(name)
    \/ \E role \in RoleTexts : RoleChanged(role)

InitEng ==
    /\ Init
    /\ clusterObj.present
    /\ loopVarPerIter
    /\ environ.KbTtl = <<"2">>

SpecEng == InitEng /\ [][NextEng]_vars

(***************************************************************************)
(* The scanner run on one line; the loop of Parse keeps taking turns.      *)
(***************************************************************************)
NextParse ==
    \/ Parse
    \/ HandlePrepareScan
    \/ HandleStateEOF
    \/ HandleStateTokenEnd
    \/ HandleStateTrimSplitCharacters
    \/ HandleStateQuotesString
    \/ HandleStateSQuotesString

InitParse ==
    /\ InitStore
    /\ clusterObj.present
    /\ loopVarPerIter
    /\ environ.KbTtl = <<"2">>
    /\ EngineIdle
    /\ f = NewFsm
    /\ call \in {[op |-> "Parse", line |-> line] : line \in Lines}

SpecParse == InitParse /\ [][NextParse]_vars

Turn ==
    \/ HandlePrepareScan
    \/ HandleStateEOF
    \/ HandleStateTokenEnd
    \/ HandleStateTrimSplitCharacters
    \/ HandleStateQuotesString
    \/ HandleStateSQuotesString

SpecParseFair == SpecParse /\ WF_vars(Turn)

(***************************************************************************)
(* Less applied to the positions of sample lists of backups.               *)
(***************************************************************************)
InitSort ==
    /\ InitStore
    /\ clusterObj.present
    /\ loopVarPerIter
    /\ environ.KbTtl = <<"2">>
    /\ EngineIdle
    /\ f = NewFsm
    /\ call \in {[op |-> "Sort", o |-> o] : o \in BackupLists}

NextSort == LessCall

SpecSort == InitSort /\ [][NextSort]_vars

(***************************************************************************)
(* Properties.                                                             *)
(***************************************************************************)
RecordNamed(name) == configMaps[CHOOSE i \in 1..Len(configMaps) : configMaps[i].name = name]

\* a Refresh step whose three reads were answered by the store
RefreshRead == GetClusterFromKubernetes /\ lastRefresh'.res # "err"

\* C1: every UpdateClusterObj write is answered by the store against the version
\* the writer read: it is accepted exactly when that version is still the
\* object's version, so of the writes made against one version at most one is
\* accepted, whichever nodes made them.
C1_AtMostOneAcceptedPerVersion ==
    /\ \A i \in 1..Len(writes) : writes[i].ok <=> writes[i].rv = writes[i].storeRv
    /\ \A i, j \in 1..Len(writes) :
          (i # j /\ writes[i].ok /\ writes[j].ok) => writes[i].rv # writes[j].rv

\* two nodes wrote against the same version; one was accepted, the other refused
C1_Witness ==
    \E i, j \in 1..Len(writes) :
        /\ writes[i].node # writes[j].node
        /\ writes[i].rv = writes[j].rv
        /\ writes[i].ok
        /\ ~writes[j].ok

NamedMembers == {m \in MemberArgs : m # Nil /\ m.Name # <<>>}

\* C2: a snapshot refreshed from a cluster object whose lease is expired at
\* refresh time names no leader: IsLeaderMember is false for every member,
\* the one the lease names included.
C2_ExpiredLeaseConfersNoLeadership ==
    [][(RefreshRead /\ lastRefresh'.res = "ok"
        /\ isExpired(newLeaderRecord(clusterObj.ann), now))
       => \A m \in NamedMembers : ~IsLeaderMember(cs'.cluster, m).ret]_vars

\* the decimal value of each sample lease text, 0 where it is no integer
LeaseValue(text) ==
    CASE text = <<"0">> -> 0
      [] text = <<"2">> -> 2
      [] text = <<"1", "0">> -> 10
      [] text = <<"-", "1">> -> 0 - 1
      [] OTHER -> 0

MaxClock == 14

ClockTimes == (0 - 3)..MaxClock

C4_OnlyOtherHealthyMembers ==
    call # Nil /\ call.op = "HasOtherHealthyMembers" =>
        \A i \in 1..Len(call.ret) :
            /\ call.ret[i].Name # call.leader
            /\ IsMemberHealthy(call.ret[i], call.healthy)
            /\ \E k \in 1..Len(call.cluster.Members) : call.cluster.Members[k] = call.ret[i]

LeaderRows(rows) == {i \in 1..Len(rows) : rows[i].ROLE = Leader}

\* C5 as stated: healthy iff the connection resolves, the query succeeds and
\* exactly one row reports the leader role.
C5_HealthyIffExactlyOneLeaderRow ==
    call # Nil /\ call.op = "IsClusterHealthy" =>
        (call.ret <=> (call.connOK /\ call.queryOK /\ Cardinality(LeaderRows(call.rows)) = 1))

\* C5 amended: healthy iff the connection resolves, the query succeeds and at
\* least one row reports the leader role; false on any connection or query
\* failure and when no row reports the leader role.
C5_HealthyIffSomeLeaderRow ==
    call # Nil /\ call.op = "IsClusterHealthy" =>
        /\ call.ret <=> (call.connOK /\ call.queryOK /\ LeaderRows(call.rows) # {})
        /\ (~call.connOK \/ ~call.queryOK) => ~call.ret
        /\ LeaderRows(call.rows) = {} => ~call.ret

\* two rows report the leader role and the cluster is found healthy
C5_Witness ==
    /\ call # Nil
    /\ call.op = "IsClusterHealthy"
    /\ Cardinality(LeaderRows(call.rows)) >= 2
    /\ call.ret

\* C6: a Refresh whose reads succeed over n pods returns normally with a
\* snapshot of n members, the i-th built from the i-th pod listed.
C6_MembersOneToOne ==
    [][RefreshRead =>
        /\ lastRefresh'.res = "ok"
        /\ Len(cs'.cluster.Members) = Len(pods)
        /\ \A i \in 1..Len(pods) : cs'.cluster.Members[i] = getMemberFromPod(pods[i])]_vars

\* C7: with a failover record whose scheduledAt is an integer in the store, the
\* refreshed snapshot carries that failover: version, leader, candidate, scheduledAt.
C7_FailoverDecoded ==
    [][(RefreshRead /\ HasConfigMap(FailoverName)
        /\ ~Atoi(Lookup(RecordNamed(FailoverName).ann, ScheduledAt)).err)
       => /\ lastRefresh'.res = "ok"
          /\ cs'.cluster.FailOver =
                newFailover(RecordNamed(FailoverName).rv,
                            Lookup(RecordNamed(FailoverName).ann, LeaderName),
                            Lookup(RecordNamed(FailoverName).ann, Candidate),
                            Atoi(Lookup(RecordNamed(FailoverName).ann, ScheduledAt)).val)]_vars

\* C8: a Refresh that finds the cluster object but no primary config record
\* returns no error, with an empty SysID, no ClusterConfig, and the Leader
\* decoded from the cluster object.
C8_AbsentConfigIsNoError ==
    [][(RefreshRead /\ ~HasConfigMap(ConfigName))
       => /\ lastRefresh'.res = "ok"
          /\ cs'.cluster.SysID = <<>>
          /\ cs'.cluster.Config = Nil
          /\ cs'.cluster.Leader # Nil
          /\ cs'.cluster.Leader.Name = Lookup(clusterObj.ann, LeaderName)
          /\ cs'.cluster.Leader.version = clusterObj.rv]_vars

\* C9: after an Init that succeeded at t0 with leader L and an integer ttl T, a
\* Refresh at t with t - t0 < T and no write in between decodes the lease
\* (L, t0, t0, T), not expired at t, and the snapshot's leader is named L.
C9_LeaseRoundTrip ==
    [][(RefreshRead /\ lastInit # Nil /\ lastInit.res = "ok"
        /\ ~Atoi(environ.KbTtl).err /\ now - lastInit.at < Atoi(environ.KbTtl).val)
       => /\ lastRefresh'.res = "ok"
          /\ cs'.leaderObservedRecord =
                [acquireTime |-> lastInit.at, leader |-> FirstLabel(environ.KbPrimaryPodName),
                 renewTime |-> lastInit.at, ttl |-> Atoi(environ.KbTtl).val]
          /\ ~isExpired(cs'.leaderObservedRecord, now)
          /\ cs'.cluster.Leader # Nil
          /\ cs'.cluster.Leader.Name = FirstLabel(environ.KbPrimaryPodName)]_vars

\* C10: IsLeaderMember returns no error, and true exactly when the member is
\* present, the snapshot has a leader and the two names are equal.
C10_LeaderMemberIffSameName ==
    call # Nil /\ call.op = "IsLeaderMember" =>
        /\ ~call.err
        /\ call.ret <=> (/\ call.member # Nil
                         /\ call.cluster.Leader # Nil
                         /\ call.member.Name = call.cluster.Leader.Name)
        /\ call.cluster.Leader = Nil => ~call.ret
        /\ call.member = Nil => ~call.ret

C10_Witness ==
    /\ call # Nil
    /\ call.op = "IsLeaderMember"
    /\ call.member # Nil
    /\ call.cluster.Leader # Nil
    /\ call.member.Name = NameA
    /\ call.ret

\* the steps that are calls of Promote and of LeaveMemberFromCluster
PromoteStep == engine'.n = engine.n + 1 /\ call'.op = "Promote"
LeaveStep == engine'.n = engine.n + 1 /\ call'.op = "LeaveMemberFromCluster"

\* C11: a Promote call on a node whose IsLeader query answers true returns no
\* error, sends no statement to any engine connection and writes nothing to
\* the store or the engine, whatever the snapshot, also when the snapshot's
\* leader connection would not resolve.
C11_LeaderPromoteIsNoOp ==
    [][(PromoteStep /\ call'.isLeader.ret) =>
           /\ call'.err = NoError
           /\ call'.issued = <<>>
           /\ engine'.members = engine.members
           /\ engine'.role = engine.role
           /\ UNCHANGED storeVars]_vars

C11_Witness ==
    /\ call # Nil
    /\ call.op = "Promote"
    /\ call.isLeader.ret
    /\ call.db.err
    /\ call.err = NoError
    /\ engine.members # <<>>

\* the engine lists the member under its address
Listed(e, name) == \E i \in 1..Len(e.members) : e.members[i] = name

\* C12: a Promote call on a node that is not the leader sends at most one
\* statement, and only change_leader with this member's own address on the
\* connection of the snapshot's leader; when that connection does not resolve
\* or the engine's membership does not list this member's address it returns
\* an error and sends nothing; when the statement is sent, the call returns an
\* error exactly when its execution fails.
C12_PromoteAsksLeaderForOwnAddress ==
    [][(PromoteStep /\ ~call'.isLeader.ret) =>
           /\ Len(call'.issued) <= 1
           /\ \A i \in 1..Len(call'.issued) :
                  /\ call'.issued[i].conn = call'.cluster.Leader.Name
                  /\ call'.issued[i].sql = <<Stmt("change_leader", Address(CurrentMemberName))>>
           /\ (call'.db.err \/ ~Listed(engine, CurrentMemberName)) =>
                  (call'.err # NoError /\ call'.issued = <<>>)
           /\ call'.issued # <<>> => (call'.err = NoError <=> call'.exec)]_vars

\* C13: a LeaveMemberFromCluster call that reaches the leader, for a member
\* whose address the engine's membership does not list, returns no error and
\* sends no statement, the first time and every time after it; so the call
\* that follows a successful removal of the same member returns no error.
C13_LeaveOfAbsentMemberIsNoOp ==
    [][(LeaveStep /\ ~call'.db.err /\ ~Listed(engine, call'.member)) =>
           /\ call'.err = NoError
           /\ call'.issued = <<>>
           /\ engine'.members = engine.members]_vars

\* the part of s before the first ch, all of s when ch does not occur
BeforeFirst(s, ch) ==
    IF \E i \in 1..Len(s) : s[i] = ch
    THEN SubSeq(s, 1, (CHOOSE i \in 1..Len(s) : s[i] = ch /\ \A j \in 1..(i - 1) : s[j] # ch) - 1)
    ELSE s

\* the ';'-separated entries of s, in order, by the positions of the separators
EntriesOf(s) ==
    LET cuts == {0, Len(s) + 1} \cup {i \in 1..Len(s) : s[i] = ";"}
        NthCut(k) == CHOOSE p \in cuts : Cardinality({q \in cuts : q < p}) = k
    IN  [k \in 1..(Cardinality(cuts) - 1) |-> SubSeq(s, NthCut(k - 1) + 1, NthCut(k) - 1)]

ExpectedAddrs(clusterInfo) ==
    LET kept == SelectSeq(EntriesOf(BeforeFirst(clusterInfo, "@")),
                          LAMBDA e : \E i \in 1..Len(e) : e[i] = ":")
    IN  [k \in 1..Len(kept) |-> BeforeFirst(kept[k], "#")]

\* C14: GetMemberAddrs returns, in order, the ';'-separated entries of the part
\* of the membership string before its first '@' that contain ':', each cut
\* at its first '#'; entries without ':' are left out; a cluster-info query
\* that fails or answers the empty string gives the empty sequence; the
\* string "10.0.0.1:13306#1;10.0.0.2:13306#1@1000" gives
\* ["10.0.0.1:13306", "10.0.0.2:13306"].
C14_MemberAddrsParsed ==
    (call # Nil /\ call.op = "GetMemberAddrs") =>
        /\ call.ret = ExpectedAddrs(call.clusterInfo)
        /\ call.clusterInfo = <<>> => call.ret = <<>>
        /\ call.clusterInfo = ExampleInfo => call.ret = ExampleAddrs

C14_Witness ==
    /\ call # Nil
    /\ call.op = "GetMemberAddrs"
    /\ call.clusterInfo = <<"a", ":", "1", "#", "1", ";", "b", ";",
                            "c", ":", "2", "#", "1", "#", "2", "@", "1">>
    /\ call.ret = <<<<"a", ":", "1">>, <<"c", ":", "2">>>>

IsPrefixOf(p, s) == Len(p) <= Len(s) /\ \A i \in 1..Len(p) : s[i] = p[i]

\* the positions of the addresses of the call that have the member name as a prefix
PrefixHits == {i \in 1..Len(call.addrs) : IsPrefixOf(call.memberName, call.addrs[i])}

\* C15: GetAddrWithMemberName returns "" exactly when no address of
\* GetMemberAddrs has the member name as a prefix, and otherwise the first
\* address, in list order, that has it as a prefix.
C15_AddrIsFirstWithPrefix ==
    (call # Nil /\ call.op = "GetAddrWithMemberName") =>
        /\ call.ret = <<>> <=> PrefixHits = {}
        /\ PrefixHits # {} =>
               call.ret = call.addrs[CHOOSE i \in PrefixHits : \A j \in PrefixHits : i <= j]

C15_Witness ==
    /\ call # Nil
    /\ call.op = "GetAddrWithMemberName"
    /\ Cardinality(PrefixHits) >= 2
    /\ 1 \notin PrefixHits
    /\ call.memberName # <<>>
    /\ call.ret = call.addrs[2]

\* the roster members of the call whose name is the leading '.'-separated
\* label of the current-leader address of the local status
NamedByLeaderAddr ==
    {m \in {call.cluster.Members[i] : i \in 1..Len(call.cluster.Members)} :
        m.Name = BeforeFirst(call.local.info.CURRENT_LEADER, ".")}

\* C16: HasOtherHealthyLeader returns none when the local info is unavailable,
\* when the local node reports a role for which IsLeader answers true, or
\* when the local status has no current-leader address; otherwise it returns
\* the roster member named by the leading host label of that address, none
\* when the roster has no member of that name.
C16_OtherLeaderFromLocalStatus ==
    (call # Nil /\ call.op = "HasOtherHealthyLeader") =>
        IF \/ call.local.err
           \/ call.local.info = Nil
           \/ IsLeader(TRUE, call.local.info.ROLE).ret
           \/ call.local.info.CURRENT_LEADER = <<>>
        THEN call.ret = Nil
        ELSE IF NamedByLeaderAddr = {} THEN call.ret = Nil
        ELSE call.ret \in NamedByLeaderAddr

\* the steps that are calls of GetCluster or GetClusterName
AccessorStep == call' # call /\ call'.op \in {"GetCluster", "GetClusterName"}

\* C17: GetCluster and GetClusterName read and write nothing in the store and
\* change no state of the configuration store; GetCluster returns the snapshot
\* that the most recent successful Refresh assembled, the initial empty
\* snapshot before the first one; a Refresh with a failing read leaves the
\* held snapshot, the observed leader record and the observed time as they were.
C17_AccessorsReturnLastRefresh ==
    [][/\ AccessorStep => UNCHANGED <<storeVars, engine>>
       /\ (AccessorStep /\ call'.op = "GetCluster") => call'.ret = Assembled
       /\ (AccessorStep /\ call'.op = "GetClusterName") => call'.ret = environ.KbClusterName
       /\ (GetClusterFromKubernetes /\ lastRefresh'.res = "err") => cs' = cs]_vars

C17_Witness ==
    /\ call # Nil
    /\ call.op = "GetCluster"
    /\ lastRefresh # Nil
    /\ lastRefresh.res = "err"
    /\ call.ret = lastRefresh.assembled
    /\ call.ret # EmptyCluster
    /\ call.ret.Leader.version < clusterObj.rv

\* the steps that are calls of Init
InitStep == lastInit' # lastInit

CountNamed(maps, name) == Cardinality({i \in 1..Len(maps) : maps[i].name = name})

\* the step wrote the lease: acquire and renew time are the time of the call
LeaseWritten ==
    /\ clusterObj'.rv = clusterObj.rv + 1
    /\ Lookup(clusterObj'.ann, AcquireTime) = FormatInt(now)
    /\ Lookup(clusterObj'.ann, RenewTime) = FormatInt(now)
    /\ newLeaderRecord(clusterObj'.ann).acquireTime = now
    /\ newLeaderRecord(clusterObj'.ann).renewTime = now

Created(name) == CountNamed(configMaps', name) = CountNamed(configMaps, name) + 1

\* C19: Init calls the store in the order read cluster object, write lease,
\* create config record, create extra record, the last only when extra is
\* given; the lease it writes has acquire and renew time equal to the time of
\* the call; it stops at the first step that fails and returns the error: no
\* write when the cluster object cannot be read, the earlier writes left in
\* place when a later step fails, and no later step made.
C19_InitStepsInOrder ==
    [][InitStep =>
           LET r == lastInit'
           IN  /\ Len(r.ops) >= 1
               /\ r.ops = SubSeq(InitOrder, 1, Len(r.ops))
               /\ r.res = "err" <=> r.step # "done"
               /\ r.res = "err" => r.ops[Len(r.ops)] = r.step
               /\ ~clusterObj.present => (r.res = "err" /\ r.step = "get")
               /\ r.step \in {"get", "update"} =>
                      (clusterObj' = clusterObj /\ configMaps' = configMaps)
               /\ r.step = "config" => (LeaseWritten /\ configMaps' = configMaps)
               /\ r.step = "extra" =>
                      /\ r.extra # Nil
                      /\ LeaseWritten
                      /\ Created(ConfigName)
                      /\ Len(configMaps') = Len(configMaps) + 1
               /\ r.step = "done" =>
                      /\ LeaseWritten
                      /\ Created(ConfigName)
                      /\ r.extra # Nil => (Created(ExtraName) /\ r.ops = InitOrder)
                      /\ r.extra = Nil =>
                             /\ Len(configMaps') = Len(configMaps) + 1
                             /\ r.ops = SubSeq(InitOrder, 1, 3)]_vars

C19_Witness ==
    /\ lastInit # Nil
    /\ lastInit.step = "extra"
    /\ lastInit.fault
    /\ lastInit.at > 0
    /\ HasConfigMap(ConfigName)
    /\ ~HasConfigMap(ExtraName)
    /\ Lookup(clusterObj.ann, RenewTime) = FormatInt(lastInit.at)

\* C20: an Init call made after an earlier Init call, whether that one
\* completed or stopped part-way, returns no error when the store does not
\* fail, and leaves one lease, one config record and, when extra is given, one
\* extra record in the store.
C20_RepeatedInitConverges ==
    [][(InitStep /\ lastInit # Nil /\ clusterObj.present /\ ~lastInit'.fault) =>
           /\ lastInit'.res = "ok"
           /\ Lookup(clusterObj'.ann, RenewTime) # <<>>
           /\ CountNamed(configMaps', ConfigName) = 1
           /\ lastInit'.extra # Nil => CountNamed(configMaps', ExtraName) = 1]_vars

\* C18: a LeaveMemberFromCluster call whose member address resolves sends to
\* the leader's connection downgrade_follower and then drop_learner, both with
\* the resolved address, and never drop_learner without downgrade_follower
\* right before it; when the leader connection does not resolve it returns
\* an error and sends nothing; when the execution fails it returns an error
\* that carries the text of the statements.
C18_LeaveDowngradesThenDrops ==
    [][LeaveStep =>
           /\ call'.db.err => (call'.err # NoError /\ call'.issued = <<>>)
           /\ (~call'.db.err /\ call'.addr # <<>>) =>
                  call'.issued =
                      <<[conn |-> call'.cluster.Leader.Name,
                         sql  |-> <<Stmt("downgrade_follower", call'.addr),
                                    Stmt("drop_learner", call'.addr)>>]>>
           /\ \A i \in 1..Len(call'.issued) :
                  \A k \in 1..Len(call'.issued[i].sql) :
                      call'.issued[i].sql[k].verb = "drop_learner" =>
                          /\ k > 1
                          /\ call'.issued[i].sql[k - 1] =
                                 Stmt("downgrade_follower", call'.issued[i].sql[k].addr)
           /\ (call'.issued # <<>> /\ ~call'.exec) =>
                  /\ call'.err # NoError
                  /\ call'.err.sql = call'.issued[1].sql
           /\ (call'.issued # <<>> /\ call'.exec) => call'.err = NoError]_vars

C18_Witness ==
    /\ call # Nil
    /\ call.op = "LeaveMemberFromCluster"
    /\ call.addr = Address(call.member)
    /\ ~call.exec
    /\ Len(call.issued) = 1
    /\ call.err # NoError
    /\ call.err.sql = LeaveStatements(call.addr)

\* no failover record, or one whose scheduledAt is missing or not an integer
FailoverAbsentOrMalformed ==
    \/ ~HasConfigMap(FailoverName)
    \/ Atoi(Lookup(RecordNamed(FailoverName).ann, ScheduledAt)).err

\* the snapshot loaded from the same store without the failover record
WithoutFailover ==
    loadClusterFromKubernetes(
        SelectConfigMap(SelectSeq(configMaps, LAMBDA m : m.name # FailoverName), ConfigName),
        Nil, PodPointers(pods).val, clusterObj, NoAnnotations, now).cluster

\* C21: a Refresh that completes while the failover record is absent, or has a
\* missing or non-integer scheduledAt, returns no error and gives a snapshot
\* with no Failover whose SysID, ClusterConfig, Leader and Members are those
\* of the same store without that record.
C21_MalformedFailoverDegrades ==
    [][(RefreshRead /\ lastRefresh'.res = "ok" /\ FailoverAbsentOrMalformed) =>
           /\ cs'.cluster.FailOver = Nil
           /\ cs'.cluster.SysID = WithoutFailover.SysID
           /\ cs'.cluster.Config = WithoutFailover.Config
           /\ cs'.cluster.Leader = WithoutFailover.Leader
           /\ cs'.cluster.Members = WithoutFailover.Members]_vars

\* C22: a Promote call during which the query of this node's own role fails
\* returns an error and sends no change_leader statement.
C22_PromoteSurfacesRoleQueryError ==
    [][(PromoteStep /\ call'.isLeader.err) =>
           /\ call'.err # NoError
           /\ call'.issued = <<>>]_vars

\* the steps that are calls of a lifecycle hook
LifecycleStep == call = Nil /\ call' # Nil /\ call'.op \in LifecycleOps

\* C23: Demote, Follow, JoinCurrentMemberToCluster, InitiateCluster,
\* InitializeCluster and Recover, called with any snapshot, one without a
\* leader included, return no error without aborting, send no statement to the
\* engine, write nothing to the store and leave the snapshot as it was;
\* IsMemberLagging returns (false, 0).
C23_LifecycleHooksAreNoOps ==
    [][/\ LifecycleStep =>
              /\ ~call'.panic
              /\ ~crashed'
              /\ call'.err = NoError
              /\ call'.issued = <<>>
              /\ UNCHANGED <<clusterObj, configMaps, pods, cs, engine>>
       /\ (call = Nil /\ call' # Nil /\ call'.op = "IsMemberLagging") =>
              call'.ret = <<FALSE, 0>>]_vars

\* the statements of one call, with the positions that exist
StatementAddrs(c) ==
    UNION {{c.issued[i].sql[j].addr : j \in 1..Len(c.issued[i].sql)} :
               i \in 1..Len(c.issued)}

\* C24: the address that LeaveMemberFromCluster(memberName) downgrades and
\* drops, and the address Promote hands to change_leader, is the address of the
\* member with exactly that name; a member whose name only begins with that
\* name is never acted on, and a member that is absent is never acted on.
C24_CommandsActOnNamedMemberOnly ==
    [][(PromoteStep \/ LeaveStep) =>
           /\ StatementAddrs(call') \subseteq {Address(call'.member)}
           /\ StatementAddrs(call') # {} => Listed(engine, call'.member)]_vars

\* the rune the scanner reads next and the one after it
Rune1 == next(f).r
Rune2 == next(next(f).f).r
InQuotes == f.handle = "stateQuotesString"
InSQuotes == f.handle = "stateSQuotesString"
ParseFailed(x) == x.err # Nil /\ x.handle = "nil"

\* the three ways in which the quoting of a line is malformed, seen from the
\* state in which the scanner meets them
Unterminated == (InQuotes \/ InSQuotes) /\ isEOF(Rune1)
TrailingBackslash == InQuotes /\ isEscape(Rune1) /\ isEOF(Rune2)
ClosingQuote == (InQuotes /\ isQuotes(Rune1)) \/ (InSQuotes /\ isSingleQuotes(Rune1))
BadClosingQuote == ClosingQuote /\ ~isEOF(Rune2) /\ ~isSplitCharacter(Rune2)

\* C25: the scanner fails, and stops, when a double- or single-quoted string
\* meets the end of the input before its closing quote, when a backslash is the
\* last character inside a double-quoted string, or when a closing quote is
\* followed by a character that is neither a split character nor the end; in
\* no other case is an error set, and a closing quote followed by a split
\* character or the end ends the current token, which is added to the output.
C25_MalformedQuotingIsRejected ==
    [][/\ (Unterminated \/ TrailingBackslash \/ BadClosingQuote) => ParseFailed(f')
       /\ ~(Unterminated \/ TrailingBackslash \/ BadClosingQuote) => f'.err = Nil
       /\ (ClosingQuote /\ ~BadClosingQuote) =>
              /\ f'.handle = "stateTokenEnd"
              /\ f'.token = f.token
              /\ stateTokenEnd(f').param = Append(f.param, f.token)
       /\ f.handle = "nil" => f' = f]_vars

C25_Witness ==
    /\ f.handle = "nil"
    /\ f.err = [msg |-> "closing quote must be followed by a space or end."]
    /\ f.currentPos < Len(f.input)

\* the steps of the loop of Parse
ScanStep == f.handle \notin {"new", "nil"} /\ f' # f

\* C26: Parse ends on every line: from one state of the scanner to the next the
\* position never decreases and never exceeds the length of the input; a turn
\* of prepareScan, stateQuotesString or stateSQuotesString that does not end the
\* scan consumes at least one rune, and stateTokenEnd and
\* stateTrimSplitCharacters lead back to prepareScan, so that every cycle
\* consumes a rune; the nil state is entered from stateEOF or by stateFailed,
\* and a scan once started reaches it.
C26_ParseTerminates ==
    /\ [][ScanStep =>
              /\ f'.currentPos >= f.currentPos
              /\ f'.currentPos <= Len(f'.input)
              /\ f'.input = f.input
              /\ (f.handle \in {"prepareScan", "stateQuotesString", "stateSQuotesString"}
                      /\ f'.handle # "nil" /\ f'.handle # "stateEOF")
                     => f'.currentPos > f.currentPos
              /\ f.handle = "stateTokenEnd" => f'.handle = "stateTrimSplitCharacters"
              /\ f.handle = "stateTrimSplitCharacters" => f'.handle = "prepareScan"
              /\ f'.handle = "nil" => (f.handle = "stateEOF" \/ f'.err # Nil)]_vars
    /\ (f.handle # "new") ~> (f.handle = "nil")

C26_Witness ==
    /\ f.handle = "nil"
    /\ f.err = Nil
    /\ Len(f.param) >= 2
    /\ f.currentPos = Len(f.input)

\* the list at hand and the order Less puts on its positions
Sorting == call # Nil /\ call.op \in {"Sort", "Less"}
Before(i, j) == Less(call.o, i, j)
Stamp(i) == call.o[i].StartTimestamp

\* C27: on a list of backups with distinct names Less is a strict total order:
\* irreflexive, asymmetric, transitive, and one of two different positions is
\* before the other; a backup with a start timestamp comes before one without,
\* an earlier timestamp first, and with equal timestamps, or with none on
\* either side, the smaller name first; every call returns such an answer.
C27_LessIsStrictTotalOrder ==
    Sorting =>
        LET P == 1..Len(call.o)
        IN  /\ \A i \in P : ~Before(i, i)
            /\ \A i, j \in P : Before(i, j) => ~Before(j, i)
            /\ \A i, j, k \in P : (Before(i, j) /\ Before(j, k)) => Before(i, k)
            /\ \A i, j \in P : i # j => (Before(i, j) \/ Before(j, i))
            /\ \A i, j \in P : (Stamp(i) # Nil /\ Stamp(j) = Nil) => Before(i, j)
            /\ \A i, j \in P :
                   (Stamp(i) # Nil /\ Stamp(j) # Nil /\ Stamp(i).Time < Stamp(j).Time) => Before(i, j)
            /\ \A i, j \in P :
                   (Stamp(i) = Stamp(j)) =>
                       (Before(i, j) <=> StringLess(call.o[i].Name, call.o[j].Name))
            /\ call.op = "Less" => call.ret = Before(call.i, call.j)

C27_Witness ==
    /\ call # Nil
    /\ call.op = "Less"
    /\ Len(call.o) = MaxBackups
    /\ call.o[call.i].StartTimestamp = Nil
    /\ call.o[call.j].StartTimestamp = Nil
    /\ call.ret


====
